---- MODULE Spec2Model ----
(***************************************************************************)
(* Model of tests/luau_test.cpp: the host program that creates a Luau VM,  *)
(* registers lua-cjson and two host functions, sandboxes the VM, then      *)
(* compiles, loads and runs one user script under lua_pcall.               *)
(***************************************************************************)
EXTENDS Integers, Sequences, FiniteSets, TLC

\* ---------------------------------------------------------------- bounds
\* argc ranges over 1..MaxArgc (argv[0] included)
MaxArgc == 3
\* a script returns at most MaxRet values
MaxRet == 2
\* a script calls the host functions at most MaxCalls times
MaxCalls == 1
\* a script passes at most MaxArgs arguments to a host function
MaxArgs == 2

\* exec_luau_source is entered with at most MaxTop values on the stack
MaxTop == 2

\* ---------------------------------------------------------------- Lua values
Nil == [t |-> "nil", s |-> "", n |-> 0]
Str(s) == [t |-> "string", s |-> s, n |-> 0]
Num(n) == [t |-> "number", s |-> "", n |-> n]
Fn(name) == [t |-> "function", s |-> name, n |-> 0]
Tbl(name) == [t |-> "table", s |-> name, n |-> 0]

\* const char* : NULL or a pointer to characters
NULL == [isnull |-> TRUE, s |-> ""]
CStr(s) == [isnull |-> FALSE, s |-> s]

Digit(d) ==
  CASE d = 0 -> "0" [] d = 1 -> "1" [] d = 2 -> "2" [] d = 3 -> "3"
    [] d = 4 -> "4" [] d = 5 -> "5" [] d = 6 -> "6" [] d = 7 -> "7"
    [] d = 8 -> "8" [] OTHER -> "9"

RECURSIVE FmtNat(_)
\* "%d" / "%llu" / number-to-string of a non-negative integer
FmtNat(n) == IF n < 10 THEN Digit(n) ELSE FmtNat(n \div 10) \o Digit(n % 10)

\* lua_tostring: strings as they are, numbers converted, anything else NULL
lua_tostring(v) ==
  IF v.t = "string" THEN CStr(v.s)
  ELSE IF v.t = "number" THEN CStr(FmtNat(v.n))
  ELSE NULL

\* ---------------------------------------------------------------- stack
AbsIndex(stk, idx) == IF idx > 0 THEN idx ELSE Len(stk) + idx + 1

lua_gettop(stk) == Len(stk)

lua_pop(stk, k) == SubSeq(stk, 1, Len(stk) - k)

lua_remove(stk, idx) ==
  LET i == AbsIndex(stk, idx)
  IN  SubSeq(stk, 1, i - 1) \o SubSeq(stk, i + 1, Len(stk))

\* moves the top element into position idx, shifting the ones above it up
lua_insert(stk, idx) ==
  LET i == AbsIndex(stk, idx)
  IN  SubSeq(stk, 1, i - 1) \o <<stk[Len(stk)]>> \o SubSeq(stk, i, Len(stk) - 1)

\* ---------------------------------------------------------------- environment
NoFile == [exists |-> FALSE, bytes |-> <<>>]
File(b) == [exists |-> TRUE, bytes |-> b]

\* contents of the script files: a program, a malformed program
OkSource == <<114, 101, 116>>
BadSource == <<61, 61>>

\* script paths that can be given as argv[1]
ScriptPaths == {"ok.luau", "syntax.luau", "empty.luau", "nofile.luau"}

\* the file system the process runs in
FileSystem(path) ==
  CASE path = "ok.luau" -> File(OkSource)
    [] path = "syntax.luau" -> File(BadSource)
    [] path = "empty.luau" -> File(<<>>)
    [] path = "a.json" -> File(<<123, 0, 125>>)
    [] path = "12" -> File(<<49>>)
    [] OTHER -> NoFile

\* locale names setlocale(LC_ALL, .) accepts
ValidLocales == {"C", "de_DE"}

\* sources the compiler rejects
Malformed == {BadSource}

\* values a script passes to the host functions, and returns
ArgVals ==
  {Str("a.json"), Str("empty.luau"), Str("de_DE"), Str("nope"), Num(12), Nil}
ExtraVals == {Str("a.json"), Nil}
RetVals == {Num(1), Str("r")}

SeqsUpTo(S, k) == UNION {[1..m -> S] : m \in 0..k}

\* argument lists of a host-function call: none, one value, or one value
\* followed by up to k - 1 equal extra values
ArgLists(k) ==
  {<<>>} \cup {<<v>> : v \in ArgVals}
    \cup {<<v>> \o [i \in 1..m |-> w] :
            v \in ArgVals, w \in ExtraVals, m \in 1..(k - 1)}

\* ---------------------------------------------------------------- state
VARIABLES
  pc,            \* position in main / exec_luau_source
  argc,          \* number of command line words, argv[0] included
  argv1,         \* argv[1] when argc >= 2
  L,             \* the VM session: "none", "open", "closed"
  newstateCount, \* calls of luaL_newstate
  closeCount,    \* calls of lua_close
  useAfterClose, \* a VM operation was applied to a session that is not open
  stack,         \* the VM stack of the main thread
  globals,       \* names the host bound with lua_setglobal
  lateBinds,     \* names the host bound after luaL_sandbox
  regCalls,      \* how often each lua-cjson entry point was called
  sandboxCount,  \* calls of luaL_sandbox
  log,           \* the host's calls in order
  cerr,          \* lines written to std::cerr
  exitStatus,    \* -1 while running, then the value main returns
  user_src,      \* result of load_file_to_string
  bytecode,      \* the buffer luau_compile returned
  load_result,   \* result of luau_load
  errfunc,       \* the index passed to lua_pcall
  entryTop,      \* stack height when exec_luau_source was entered
  execRet,       \* value exec_luau_source returned, -1 before
  pcallCount,    \* calls of lua_pcall
  pcallStatus,   \* result of lua_pcall
  raised,        \* the chunk raised an error that reached lua_pcall
  results,       \* the values the chunk returned
  calls,         \* host-function calls the script made
  locale,        \* the process locale (LC_ALL)
  openFiles,     \* FILE handles fopen returned that were not fclosed
  heldBuffers,   \* malloc'ed read buffers that were not freed
  lastCall       \* the last host-function call and its outcome

mainVars == <<argc, argv1>>
vmVars == <<L, newstateCount, closeCount, useAfterClose, stack>>
setupVars == <<globals, lateBinds, regCalls, sandboxCount>>
execVars == <<user_src, bytecode, load_result, errfunc, entryTop, execRet,
              pcallCount, pcallStatus, raised, results>>
scriptVars == <<calls, locale, openFiles, heldBuffers, lastCall>>

vars == <<pc, mainVars, vmVars, setupVars, log, cerr, exitStatus, execVars,
          scriptVars>>

NoBuffer == [state |-> "none", ok |-> FALSE, reads |-> 0, readsAfterFree |-> 0,
             frees |-> 0]

\* outcome of a host-function call: the error raised with luaL_error or the
\* values returned; whether fopen / setlocale was reached (attempted) and
\* succeeded (effect); handles and buffers still held when control left
Outcome(err, msg, attempted, effect, nret, bytes, files, bufs, loc) ==
  [raised |-> err, msg |-> msg, attempted |-> attempted, effect |-> effect,
   nret |-> nret, bytes |-> bytes, files |-> files, bufs |-> bufs,
   locale |-> loc]

\* what the C library did in a host-function call: malloc returned NULL;
\* fread delivered shortfall bytes less than asked for
Env(mallocNull, shortfall) == [mallocNull |-> mallocNull, shortfall |-> shortfall]

NoCall == [fn |-> "none", args |-> <<>>, env |-> Env(FALSE, 0),
           out |-> Outcome(FALSE, "", FALSE, FALSE, 0, <<>>, 0, 0, "C")]

Init ==
  /\ pc = "main"
  /\ argc \in 1..MaxArgc
  /\ argv1 \in (IF argc >= 2 THEN ScriptPaths ELSE {""})
  /\ L = "none"
  /\ newstateCount = 0
  /\ closeCount = 0
  /\ useAfterClose = FALSE
  /\ stack = <<>>
  /\ globals = {}
  /\ lateBinds = {}
  /\ regCalls = [f \in {"luaopen_cjson", "luaopen_cjson_safe"} |-> 0]
  /\ sandboxCount = 0
  /\ log = <<>>
  /\ cerr = <<>>
  /\ exitStatus = -1
  /\ user_src = <<>>
  /\ bytecode = NoBuffer
  /\ load_result = 0
  /\ errfunc = 0
  /\ entryTop = 0
  /\ execRet = -1
  /\ pcallCount = 0
  /\ pcallStatus = 0
  /\ raised = FALSE
  /\ results = <<>>
  /\ calls = 0
  /\ locale = "C"
  /\ openFiles = 0
  /\ heldBuffers = 0
  /\ lastCall = NoCall

\* a VM operation on L: remembered when the session is not open
Touch == useAfterClose' = (useAfterClose \/ L # "open")

Diag(prefix, text) == [prefix |-> prefix, text |-> text]

\* ---------------------------------------------------------------- main
\* mutant: the sandbox is locked before the host functions are bound
SetupOrderLockFirst ==
  <<"openlibs", "cjson", "cjson_safe", "sandbox", "bind_file_load",
    "bind_setlocale", "load_file">>

\* the statements of main between luaL_newstate and exec_luau_source, in order
SetupOrder ==
  <<"openlibs", "cjson", "cjson_safe", "bind_file_load", "bind_setlocale",
    "sandbox", "load_file">>

\* the statement that follows statement p
After(p) ==
  LET i == CHOOSE k \in 1..Len(SetupOrder) : SetupOrder[k] = p
  IN  SetupOrder[i + 1]

\* main's argument check
UsageError(n) == n < 2

Main_Usage ==
  /\ pc = "main"
  /\ UsageError(argc)
  /\ cerr' = Append(cerr, Diag("Usage: ", "script.luau"))
  /\ exitStatus' = 1
  /\ pc' = "done"
  /\ UNCHANGED <<mainVars, vmVars, setupVars, log, execVars, scriptVars>>

Main_NewState ==
  /\ pc = "main"
  /\ ~UsageError(argc)
  /\ L' = "open"
  /\ newstateCount' = newstateCount + 1
  /\ stack' = <<>>
  /\ log' = Append(log, "luaL_newstate")
  /\ pc' = SetupOrder[1]
  /\ UNCHANGED <<mainVars, closeCount, useAfterClose, setupVars, cerr,
                 exitStatus, execVars, scriptVars>>

Main_OpenLibs ==
  /\ pc = "openlibs"
  /\ Touch
  /\ log' = Append(log, "luaL_openlibs")
  /\ pc' = After("openlibs")
  /\ UNCHANGED <<mainVars, L, newstateCount, closeCount, stack, setupVars,
                 cerr, exitStatus, execVars, scriptVars>>

\* lua_pushcfunction(L, f, name); lua_call(L, 0, 0)
CallRegistration(name, next) ==
  /\ Touch
  /\ regCalls' = [regCalls EXCEPT ![name] = @ + 1]
  /\ log' = Append(log, name)
  /\ pc' = next
  /\ UNCHANGED <<mainVars, L, newstateCount, closeCount, stack, globals,
                 lateBinds, sandboxCount, cerr, exitStatus, execVars,
                 scriptVars>>

Main_OpenCjson ==
  pc = "cjson" /\ CallRegistration("luaopen_cjson", After("cjson"))

Main_OpenCjsonSafe ==
  pc = "cjson_safe" /\ CallRegistration("luaopen_cjson_safe", After("cjson_safe"))

\* lua_pushcfunction(L, f, name); lua_setglobal(L, name)
BindGlobal(name, next) ==
  /\ Touch
  /\ globals' = globals \cup {name}
  /\ lateBinds' = IF sandboxCount > 0 THEN lateBinds \cup {name} ELSE lateBinds
  /\ log' = Append(log, "lua_setglobal")
  /\ pc' = next
  /\ UNCHANGED <<mainVars, L, newstateCount, closeCount, stack, regCalls,
                 sandboxCount, cerr, exitStatus, execVars, scriptVars>>

Main_BindFileLoad ==
  pc = "bind_file_load" /\ BindGlobal("luau_file_load", After("bind_file_load"))

Main_BindSetlocale ==
  pc = "bind_setlocale" /\ BindGlobal("luau_setlocale", After("bind_setlocale"))

Main_Sandbox ==
  /\ pc = "sandbox"
  /\ Touch
  /\ sandboxCount' = sandboxCount + 1
  /\ log' = Append(log, "luaL_sandbox")
  /\ pc' = After("sandbox")
  /\ UNCHANGED <<mainVars, L, newstateCount, closeCount, stack, globals,
                 lateBinds, regCalls, cerr, exitStatus, execVars, scriptVars>>

\* load_file_to_string: the file's content, or "" and a diagnostic
load_file_to_string(filename) ==
  IF ~FileSystem(filename).exists
  THEN [out |-> <<>>, diag |-> <<Diag("Failed to open file: ", filename)>>]
  ELSE [out |-> FileSystem(filename).bytes, diag |-> <<>>]

\* main: user_src = load_file_to_string(user_filename), then the call of
\* exec_luau_source(L, user_filename, user_src)
Main_LoadFile ==
  /\ pc = "load_file"
  /\ LET r == load_file_to_string(argv1)
     IN  /\ user_src' = r.out
         /\ cerr' = cerr \o r.diag
  /\ entryTop' = lua_gettop(stack)
  /\ log' = Append(log, "load_file_to_string")
  /\ pc' = "compile"
  /\ UNCHANGED <<mainVars, vmVars, setupVars, exitStatus, bytecode,
                 load_result, errfunc, execRet, pcallCount, pcallStatus,
                 raised, results, scriptVars>>

\* mutant: main closes the session on the failure path as well
Main_ExecFailed_close ==
  /\ pc = "exec_ret"
  /\ execRet # 0
  /\ Touch
  /\ L' = "closed"
  /\ closeCount' = closeCount + 1
  /\ exitStatus' = 1
  /\ pc' = "done"
  /\ UNCHANGED <<mainVars, newstateCount, stack, setupVars, log, cerr,
                 execVars, scriptVars>>

\* mutant: a failed run is tried again
Main_ExecFailed_retry ==
  /\ pc = "exec_ret"
  /\ execRet # 0
  /\ pc' = "load_file"
  /\ UNCHANGED <<mainVars, vmVars, setupVars, log, cerr, exitStatus, execVars,
                 scriptVars>>

\* main: if (exec_luau_source(...)) return 1;
Main_ExecFailed ==
  /\ pc = "exec_ret"
  /\ execRet # 0
  /\ exitStatus' = 1
  /\ pc' = "done"
  /\ UNCHANGED <<mainVars, vmVars, setupVars, log, cerr, execVars, scriptVars>>

\* main: lua_close(L); return 0;
Main_Close ==
  /\ pc = "exec_ret"
  /\ execRet = 0
  /\ Touch
  /\ L' = "closed"
  /\ closeCount' = closeCount + 1
  /\ stack' = <<>>
  /\ log' = Append(log, "lua_close")
  /\ exitStatus' = 0
  /\ pc' = "done"
  /\ UNCHANGED <<mainVars, newstateCount, setupVars, cerr, execVars,
                 scriptVars>>

\* ---------------------------------------------------------------- exec_luau_source
\* luau_compile: a buffer; a rejected source gives a buffer that encodes the error
luau_compile(source) ==
  [state |-> "live", ok |-> source \notin Malformed, reads |-> 0,
   readsAfterFree |-> 0, frees |-> 0]

\* a read of the bytecode buffer
ReadBuffer(b) ==
  [b EXCEPT !.reads = @ + 1,
            !.readsAfterFree = IF b.state = "live" THEN @ ELSE @ + 1]

Exec_Compile ==
  /\ pc = "compile"
  /\ bytecode' = luau_compile(user_src)
  /\ log' = Append(log, "luau_compile")
  /\ pc' = "load"
  /\ UNCHANGED <<mainVars, vmVars, setupVars, cerr, exitStatus, user_src,
                 load_result, errfunc, entryTop, execRet, pcallCount,
                 pcallStatus, raised, results, scriptVars>>

\* luau_load: pushes the chunk and returns 0, or pushes the error and returns 1
Exec_Load ==
  /\ pc = "load"
  /\ Touch
  /\ bytecode' = ReadBuffer(bytecode)
  /\ IF bytecode.ok
     THEN /\ stack' = Append(stack, Fn(argv1))
          /\ load_result' = 0
     ELSE /\ stack' = Append(stack, Str(argv1 \o ":1: syntax error"))
          /\ load_result' = 1
  /\ log' = Append(log, "luau_load")
  /\ pc' = "free"
  /\ UNCHANGED <<mainVars, L, newstateCount, closeCount, setupVars, cerr,
                 exitStatus, user_src, errfunc, entryTop, execRet, pcallCount,
                 pcallStatus, raised, results, scriptVars>>

\* mutant: the buffer is released only after a successful load
Exec_Free_onsuccess ==
  /\ pc = "free"
  /\ bytecode' = IF load_result = 0
                 THEN [bytecode EXCEPT !.state = "freed", !.frees = @ + 1]
                 ELSE bytecode
  /\ log' = Append(log, "free")
  /\ pc' = "loaded"
  /\ UNCHANGED <<mainVars, vmVars, setupVars, cerr, exitStatus, user_src,
                 load_result, errfunc, entryTop, execRet, pcallCount,
                 pcallStatus, raised, results, scriptVars>>

\* free(bytecode)
Exec_Free ==
  /\ pc = "free"
  /\ bytecode' = [bytecode EXCEPT !.state = "freed", !.frees = @ + 1]
  /\ log' = Append(log, "free")
  /\ pc' = "loaded"
  /\ UNCHANGED <<mainVars, vmVars, setupVars, cerr, exitStatus, user_src,
                 load_result, errfunc, entryTop, execRet, pcallCount,
                 pcallStatus, raised, results, scriptVars>>

\* std::cerr << prefix << lua_tostring(L, -1)
ReportTop(prefix, next) ==
  /\ Touch
  /\ cerr' = Append(cerr, Diag(prefix, lua_tostring(stack[Len(stack)]).s))
  /\ pc' = next
  /\ UNCHANGED <<mainVars, L, newstateCount, closeCount, stack, setupVars, log,
                 exitStatus, execVars, scriptVars>>

\* lua_pop(L, 1)
PopError(next) ==
  /\ Touch
  /\ stack' = lua_pop(stack, 1)
  /\ pc' = next
  /\ UNCHANGED <<mainVars, L, newstateCount, closeCount, setupVars, log, cerr,
                 exitStatus, execVars, scriptVars>>

\* mutant: the failure branch returns 1 without lua_close
CloseAndFail_noclose ==
  /\ execRet' = 1
  /\ pc' = "exec_ret"
  /\ UNCHANGED <<mainVars, vmVars, setupVars, log, cerr, exitStatus,
                 user_src, bytecode, load_result, errfunc, entryTop,
                 pcallCount, pcallStatus, raised, results, scriptVars>>

\* lua_close(L); return 1;
CloseAndFail ==
  /\ Touch
  /\ L' = "closed"
  /\ closeCount' = closeCount + 1
  /\ stack' = <<>>
  /\ log' = Append(log, "lua_close")
  /\ execRet' = 1
  /\ pc' = "exec_ret"
  /\ UNCHANGED <<mainVars, newstateCount, setupVars, cerr, exitStatus,
                 user_src, bytecode, load_result, errfunc, entryTop,
                 pcallCount, pcallStatus, raised, results, scriptVars>>

Exec_LoadErrReport ==
  pc = "loaded" /\ load_result # 0 /\ ReportTop("Load error: ", "load_err_pop")

Exec_LoadErrPop == pc = "load_err_pop" /\ PopError("load_err_close")

Exec_LoadErrClose == pc = "load_err_close" /\ CloseAndFail

\* a stack operation of exec_luau_source that changes only the stack
StackStep(newStack, next) ==
  /\ Touch
  /\ stack' = newStack
  /\ pc' = next
  /\ UNCHANGED <<mainVars, L, newstateCount, closeCount, setupVars, log, cerr,
                 exitStatus, execVars, scriptVars>>

\* mutant: the load-failure branch falls through to the execution
Exec_GetDebug_unchecked ==
  pc = "loaded"
    /\ StackStep(Append(stack, Tbl("debug")), "getfield")

\* lua_getglobal(L, "debug")
Exec_GetDebug ==
  pc = "loaded" /\ load_result = 0
    /\ StackStep(Append(stack, Tbl("debug")), "getfield")

\* lua_getfield(L, -1, "traceback")
Exec_GetTraceback ==
  pc = "getfield" /\ StackStep(Append(stack, Fn("traceback")), "remove_debug")

\* lua_remove(L, -2)
Exec_RemoveDebug ==
  pc = "remove_debug" /\ StackStep(lua_remove(stack, -2), "insert")

\* mutant: the traceback function is left above the chunk
Exec_Insert_top == pc = "insert" /\ StackStep(lua_insert(stack, -1), "errfunc")

\* lua_insert(L, -2)
Exec_Insert == pc = "insert" /\ StackStep(lua_insert(stack, -2), "errfunc")

\* int errfunc = lua_gettop(L) - 1
Exec_Errfunc ==
  /\ pc = "errfunc"
  /\ Touch
  /\ errfunc' = lua_gettop(stack) - 1
  /\ pc' = "pcall"
  /\ UNCHANGED <<mainVars, L, newstateCount, closeCount, stack, setupVars, log,
                 cerr, exitStatus, user_src, bytecode, load_result, entryTop,
                 execRet, pcallCount, pcallStatus, raised, results, scriptVars>>

\* lua_pcall(L, 0, LUA_MULTRET, errfunc) starts: the chunk is taken off the
\* stack and runs
Exec_PcallBegin ==
  /\ pc = "pcall"
  /\ Touch
  /\ stack' = lua_pop(stack, 1)
  /\ pcallCount' = pcallCount + 1
  /\ log' = Append(log, "lua_pcall")
  /\ pc' = "running"
  /\ UNCHANGED <<mainVars, L, newstateCount, closeCount, setupVars, cerr,
                 exitStatus, user_src, bytecode, load_result, errfunc,
                 entryTop, execRet, pcallStatus, raised, results, scriptVars>>

\* mutant: the runtime failure is reported with the load prefix
Exec_RuntimeErrReport_loadprefix ==
  pc = "pcall_ret" /\ pcallStatus # 0
    /\ ReportTop("Load error: ", "run_err_pop")

Exec_RuntimeErrReport ==
  pc = "pcall_ret" /\ pcallStatus # 0
    /\ ReportTop("Runtime error: ", "run_err_pop")

Exec_RuntimeErrPop == pc = "run_err_pop" /\ PopError("run_err_close")

Exec_RuntimeErrClose == pc = "run_err_close" /\ CloseAndFail

\* mutant: the top of the stack is removed instead of the handler's slot
Exec_RemoveErrfunc_top ==
  /\ pc = "pcall_ret"
  /\ pcallStatus = 0
  /\ Touch
  /\ stack' = lua_remove(stack, -1)
  /\ execRet' = 0
  /\ pc' = "exec_ret"
  /\ UNCHANGED <<mainVars, L, newstateCount, closeCount, setupVars, log, cerr,
                 exitStatus, user_src, bytecode, load_result, errfunc,
                 entryTop, pcallCount, pcallStatus, raised, results, scriptVars>>

\* mutant: the number of results is returned instead of 0
Exec_RemoveErrfunc_count ==
  /\ pc = "pcall_ret"
  /\ pcallStatus = 0
  /\ Touch
  /\ stack' = lua_remove(stack, errfunc)
  /\ execRet' = lua_gettop(stack) - errfunc
  /\ pc' = "exec_ret"
  /\ UNCHANGED <<mainVars, L, newstateCount, closeCount, setupVars, log, cerr,
                 exitStatus, user_src, bytecode, load_result, errfunc,
                 entryTop, pcallCount, pcallStatus, raised, results, scriptVars>>

\* lua_remove(L, errfunc); return 0;
Exec_RemoveErrfunc ==
  /\ pc = "pcall_ret"
  /\ pcallStatus = 0
  /\ Touch
  /\ stack' = lua_remove(stack, errfunc)
  /\ execRet' = 0
  /\ pc' = "exec_ret"
  /\ UNCHANGED <<mainVars, L, newstateCount, closeCount, setupVars, log, cerr,
                 exitStatus, user_src, bytecode, load_result, errfunc,
                 entryTop, pcallCount, pcallStatus, raised, results, scriptVars>>

\* ---------------------------------------------------------------- host functions
Min(a, b) == IF a < b THEN a ELSE b

\* luaL_error: the call ends here with a script-level error
Raise(msg, attempted, effect, files, bufs, loc) ==
  Outcome(TRUE, msg, attempted, effect, 0, <<>>, files, bufs, loc)

\* mutant: extra arguments are accepted
ArityOk_atleast(narg) == narg >= 1

\* narg != 1 is an error
ArityOk(narg) == narg = 1

\* mutant: lua_pushstring, which stops at the first zero byte
lua_pushstring(data, size) ==
  LET zeros == {i \in 1..size : data[i] = 0}
  IN  IF zeros = {} THEN SubSeq(data, 1, size)
      ELSE SubSeq(data, 1, (CHOOSE i \in zeros : \A j \in zeros : i <= j) - 1)

\* lua_pushlstring(L, data, size): a string of the first size bytes of data
lua_pushlstring(data, size) == SubSeq(data, 1, size)

\* luau_file_load called with args; mallocNull: malloc returns NULL;
\* shortfall: the number of bytes fread fails to deliver
luau_file_load(args, mallocNull, shortfall, loc) ==
  LET narg == Len(args)
  IN
  IF ~ArityOk(narg)
  THEN Raise("luau_file_load: expected 1 argument (filename : string), got "
               \o FmtNat(narg) \o " arguments", FALSE, FALSE, 0, 0, loc)
  ELSE
  LET arg1 == lua_tostring(args[1])
  IN
  IF arg1.isnull
  THEN Raise("luau_file_load: expected 1 argument (filename : string), argument not a string",
             FALSE, FALSE, 0, 0, loc)
  ELSE
  LET f == FileSystem(arg1.s)
  IN
  IF ~f.exists
  THEN Raise("luau_file_load: can not open file " \o arg1.s,
             TRUE, FALSE, 0, 0, loc)
  ELSE
  LET f_size == Len(f.bytes)
      f_read == f_size - Min(f_size, shortfall)
  IN
  IF mallocNull
  THEN Raise("luau_file_load: can not allocate " \o FmtNat(f_size) \o " bytes",
             TRUE, TRUE, 1, 0, loc)
  ELSE IF f_read # f_size
  THEN Raise("luau_file_load: can only read " \o FmtNat(f_read)
               \o " bytes, wanted " \o FmtNat(f_size) \o " bytes",
             TRUE, TRUE, 1, 1, loc)
  ELSE Outcome(FALSE, "", TRUE, TRUE, 1,
               lua_pushlstring(SubSeq(f.bytes, 1, f_read), f_size), 0, 0, loc)

\* mutant: only the numeric facet is set, LC_ALL stays as it was
setlocale_numeric(name, loc) ==
  IF name \in ValidLocales
  THEN [ret |-> CStr(name), locale |-> loc]
  ELSE [ret |-> NULL, locale |-> loc]

\* setlocale(LC_ALL, name) while the process locale is loc: the new locale
\* name, or NULL and the locale unchanged
setlocale(name, loc) ==
  IF name \in ValidLocales
  THEN [ret |-> CStr(name), locale |-> name]
  ELSE [ret |-> NULL, locale |-> loc]

\* luau_setlocale called with args while the process locale is loc
luau_setlocale(args, loc) ==
  LET narg == Len(args)
  IN
  IF ~ArityOk(narg)
  THEN Raise("luau_setlocale: expected 1 argument (locale : string), got "
               \o FmtNat(narg) \o " arguments", FALSE, FALSE, 0, 0, loc)
  ELSE
  LET arg1 == lua_tostring(args[1])
  IN
  IF arg1.isnull
  THEN Raise("luau_setlocale: expected 1 argument (locale : string), argument not a string",
             FALSE, FALSE, 0, 0, loc)
  ELSE
  LET r == setlocale(arg1.s, loc)
  IN
  IF r.ret.isnull
  THEN Raise("luau_setlocale: can not set locale " \o arg1.s,
             TRUE, FALSE, 0, 0, r.locale)
  ELSE Outcome(FALSE, "", TRUE, TRUE, 0, <<>>, 0, 0, r.locale)

\* ---------------------------------------------------------------- the running chunk
\* debug.traceback as the error handler of lua_pcall
Traceback(msg) == msg \o "\nstack traceback"

\* the chunk calls a host function; an error it raises is caught by the
\* script (pcall in the script) or reaches the host's lua_pcall
ApplyCall(fn, args, env, out, caught) ==
  /\ calls' = calls + 1
  /\ lastCall' = [fn |-> fn, args |-> args, env |-> env, out |-> out]
  /\ locale' = out.locale
  /\ openFiles' = openFiles + out.files
  /\ heldBuffers' = heldBuffers + out.bufs
  /\ IF out.raised /\ ~caught
     THEN /\ stack' = Append(stack, Str(Traceback(out.msg)))
          /\ pcallStatus' = 2
          /\ raised' = TRUE
          /\ pc' = "pcall_ret"
     ELSE /\ UNCHANGED <<stack, pcallStatus, raised>>
          /\ pc' = "running"
  /\ UNCHANGED results
  /\ UNCHANGED <<mainVars, L, newstateCount, closeCount, useAfterClose,
                 setupVars, log, cerr, exitStatus, user_src, bytecode,
                 load_result, errfunc, entryTop, execRet, pcallCount>>

Script_CallFileLoad ==
  /\ pc = "running"
  /\ user_src # <<>>
  /\ calls < MaxCalls
  /\ \E args \in ArgLists(MaxArgs), mallocNull \in BOOLEAN,
        shortfall \in 0..Len(FileSystem("a.json").bytes), caught \in BOOLEAN :
       LET out == luau_file_load(args, mallocNull, shortfall, locale)
           size == IF out.effect
                   THEN Len(FileSystem(lua_tostring(args[1]).s).bytes)
                   ELSE 0
       IN  /\ out.effect \/ ~mallocNull
           /\ shortfall <= (IF mallocNull THEN 0 ELSE size)
           /\ caught => out.raised
           /\ ApplyCall("luau_file_load", args, Env(mallocNull, shortfall),
                        out, caught)

Script_CallSetlocale ==
  /\ pc = "running"
  /\ user_src # <<>>
  /\ calls < MaxCalls
  /\ \E args \in ArgLists(MaxArgs), caught \in BOOLEAN :
       LET out == luau_setlocale(args, locale)
       IN  /\ caught => out.raised
           /\ ApplyCall("luau_setlocale", args, Env(FALSE, 0), out, caught)

\* the chunk ends normally: lua_pcall leaves its results on the stack
Script_Return ==
  /\ pc = "running"
  /\ \E vals \in SeqsUpTo(RetVals, MaxRet) :
       /\ user_src = <<>> => vals = <<>>
       /\ stack' = stack \o vals
       /\ results' = vals
  /\ pcallStatus' = 0
  /\ pc' = "pcall_ret"
  /\ UNCHANGED <<mainVars, L, newstateCount, closeCount, useAfterClose,
                 setupVars, log, cerr, exitStatus, user_src, bytecode,
                 load_result, errfunc, entryTop, execRet, pcallCount, raised,
                 scriptVars>>

\* the chunk raises: the handler's result is left on the stack
Script_Raise ==
  /\ pc = "running"
  /\ user_src # <<>>
  /\ \E msg \in {"boom", "attempt to call a nil value"} :
       stack' = Append(stack, Str(Traceback(msg)))
  /\ pcallStatus' = 2
  /\ raised' = TRUE
  /\ pc' = "pcall_ret"
  /\ UNCHANGED <<mainVars, L, newstateCount, closeCount, useAfterClose,
                 setupVars, log, cerr, exitStatus, user_src, bytecode,
                 load_result, errfunc, entryTop, execRet, pcallCount, results,
                 scriptVars>>

\* ---------------------------------------------------------------- specification
Next ==
  \/ Main_Usage
  \/ Main_NewState
  \/ Main_OpenLibs
  \/ Main_OpenCjson
  \/ Main_OpenCjsonSafe
  \/ Main_BindFileLoad
  \/ Main_BindSetlocale
  \/ Main_Sandbox
  \/ Main_LoadFile
  \/ Exec_Compile
  \/ Exec_Load
  \/ Exec_Free
  \/ Exec_LoadErrReport
  \/ Exec_LoadErrPop
  \/ Exec_LoadErrClose
  \/ Exec_GetDebug
  \/ Exec_GetTraceback
  \/ Exec_RemoveDebug
  \/ Exec_Insert
  \/ Exec_Errfunc
  \/ Exec_PcallBegin
  \/ Script_CallFileLoad
  \/ Script_CallSetlocale
  \/ Script_Return
  \/ Script_Raise
  \/ Exec_RuntimeErrReport
  \/ Exec_RuntimeErrPop
  \/ Exec_RuntimeErrClose
  \/ Exec_RemoveErrfunc
  \/ Main_ExecFailed
  \/ Main_Close

Spec == Init /\ [][Next]_vars

\* exec_luau_source on its own: called on an open, set-up session whose stack
\* already holds h values
EntryStack(h) == [i \in 1..h |-> Num(i)]

InitExec ==
  /\ pc = "compile"
  /\ argc = 2
  /\ argv1 \in {"ok.luau", "syntax.luau", "empty.luau"}
  /\ user_src = load_file_to_string(argv1).out
  /\ L = "open"
  /\ newstateCount = 1
  /\ closeCount = 0
  /\ useAfterClose = FALSE
  /\ \E h \in 0..MaxTop : stack = EntryStack(h) /\ entryTop = h
  /\ globals = {"luau_file_load", "luau_setlocale"}
  /\ lateBinds = {}
  /\ regCalls = [f \in {"luaopen_cjson", "luaopen_cjson_safe"} |-> 1]
  /\ sandboxCount = 1
  /\ log = <<>>
  /\ cerr = <<>>
  /\ exitStatus = -1
  /\ bytecode = NoBuffer
  /\ load_result = 0
  /\ errfunc = 0
  /\ execRet = -1
  /\ pcallCount = 0
  /\ pcallStatus = 0
  /\ raised = FALSE
  /\ results = <<>>
  /\ calls = 0
  /\ locale = "C"
  /\ openFiles = 0
  /\ heldBuffers = 0
  /\ lastCall = NoCall

NextExec ==
  \/ Exec_Compile
  \/ Exec_Load
  \/ Exec_Free
  \/ Exec_LoadErrReport
  \/ Exec_LoadErrPop
  \/ Exec_LoadErrClose
  \/ Exec_GetDebug
  \/ Exec_GetTraceback
  \/ Exec_RemoveDebug
  \/ Exec_Insert
  \/ Exec_Errfunc
  \/ Exec_PcallBegin
  \/ Script_CallFileLoad
  \/ Script_CallSetlocale
  \/ Script_Return
  \/ Script_Raise
  \/ Exec_RuntimeErrReport
  \/ Exec_RuntimeErrPop
  \/ Exec_RuntimeErrClose
  \/ Exec_RemoveErrfunc

SpecExec == InitExec /\ [][NextExec]_vars

\* a run of main under the scheduling of a sequential program: a statement
\* that can be executed is executed
FairSpec == Spec /\ WF_vars(Next)

\* ---------------------------------------------------------------- properties
Called(name) == \E i \in DOMAIN log : log[i] = name

ScriptUnopenable == argc >= 2 /\ ~FileSystem(argv1).exists

UsageDiag == Diag("Usage: ", "script.luau")

\* C1: a run whose script path cannot be opened emits the failed-open
\* diagnostic, gets an empty source, never calls luau_compile, luau_load or
\* lua_pcall, and exits with status 1.
C1_UnopenableScriptStops ==
  ScriptUnopenable =>
    /\ Called("load_file_to_string") =>
         /\ user_src = <<>>
         /\ cerr = <<Diag("Failed to open file: ", argv1)>>
    /\ ~Called("luau_compile")
    /\ ~Called("luau_load")
    /\ pcallCount = 0
    /\ pc = "done" => exitStatus = 1

\* C2: a run with zero or with two or more positional arguments emits the
\* usage message, exits with status 1 and never creates a VM session.
C2_WrongArityIsUsageError ==
  argc # 2 =>
    /\ newstateCount = 0
    /\ L = "none"
    /\ pc = "done" => (exitStatus = 1 /\ cerr = <<UsageDiag>>)

\* a failure of one of the four kinds happened on this run
RunFailed ==
  \/ argc # 2
  \/ ScriptUnopenable /\ Called("load_file_to_string")
  \/ load_result # 0
  \/ pcallStatus # 0

\* C3: a finished run that failed has exactly one diagnostic and a non-zero
\* exit status; a finished run with exit status 0 has no diagnostic.
C3_OneDiagnosticPerFailure ==
  pc = "done" =>
    /\ RunFailed => (exitStatus # 0 /\ Len(cerr) = 1)
    /\ exitStatus = 0 => cerr = <<>>
    /\ exitStatus # 0 => Len(cerr) = 1

\* C4: a run that created a VM session closes it exactly once before it
\* exits: never twice at any point, and once when the process has exited.
C4_SessionClosedExactlyOnce ==
  /\ newstateCount <= 1
  /\ closeCount <= newstateCount
  /\ (pc = "done" /\ newstateCount = 1) => (closeCount = 1 /\ L = "closed")
  /\ newstateCount = 0 => L = "none"

C4_Witness == pc = "done" /\ newstateCount = 1 /\ closeCount = 1 /\ raised

\* C5: when exec_luau_source has returned 1 the session is closed, when it
\* has just returned 0 the session is open, and no VM operation is ever
\* applied to a session that is not open.
C5_OwnershipHandshake ==
  /\ execRet = 1 => L = "closed"
  /\ (pc = "exec_ret" /\ execRet = 0) => L = "open"
  /\ execRet \in {-1, 0, 1}
  /\ ~useAfterClose

C5_Witness == pc = "exec_ret" /\ execRet = 1 /\ L = "closed" /\ load_result # 0

\* C6: when luau_load fails, lua_pcall is never called and the chunk never
\* runs; the finished run has a "Load error: " diagnostic and exit status 1.
C6_LoadFailureNeverRuns ==
  load_result # 0 =>
    /\ pcallCount = 0
    /\ pc \notin {"pcall", "running", "pcall_ret"}
    /\ calls = 0
    /\ pc = "done" =>
         /\ exitStatus = 1
         /\ \E i \in DOMAIN cerr : cerr[i].prefix = "Load error: "

C6_Witness == pc = "done" /\ load_result # 0 /\ Called("luau_load")

\* C7: when a loaded chunk raises, lua_pcall returns non-zero, exactly one
\* diagnostic "Runtime error: " with the error value on top of the stack is
\* written, the error value is popped, the session is closed and the exit
\* status is 1.
C7_RuntimeFailureReported ==
  raised =>
    /\ load_result = 0 /\ pcallCount = 1 /\ pcallStatus # 0
    /\ pc = "pcall_ret" => cerr = <<>>
    /\ pc = "run_err_pop" =>
         cerr = <<Diag("Runtime error: ", stack[Len(stack)].s)>>
    /\ pc = "run_err_close" =>
         /\ Len(stack) = errfunc
         /\ stack[errfunc] = Fn("traceback")
    /\ pc \in {"run_err_close", "exec_ret", "done"} =>
         /\ Len(cerr) = 1
         /\ cerr[1].prefix = "Runtime error: "
    /\ pc \in {"exec_ret", "done"} => (L = "closed" /\ execRet = 1)
    /\ pc = "done" => exitStatus = 1

C7_Witness == pc = "done" /\ raised /\ exitStatus = 1

\* the script was read, loaded and ran to its end without raising
CompletedNormally ==
  /\ argc >= 2
  /\ FileSystem(argv1).exists
  /\ pcallCount = 1
  /\ pcallStatus = 0
  /\ pc \in {"pcall_ret", "exec_ret", "done"}

\* C8: a run whose readable script loads and completes without raising
\* writes no diagnostic and exits with status 0, whatever values the script
\* returned.
C8_SuccessIsSilentZero ==
  CompletedNormally =>
    /\ cerr = <<>>
    /\ pc \in {"exec_ret", "done"} => execRet = 0
    /\ pc = "done" => exitStatus = 0

C8_Witness ==
  /\ pc = "done"
  /\ CompletedNormally
  /\ exitStatus = 0
  /\ Len(results) >= 2
  /\ results[1].t # results[2].t

SetupCalls ==
  {"luaL_openlibs", "luaopen_cjson", "luaopen_cjson_safe", "lua_setglobal"}

PipelineCalls == {"load_file_to_string", "luau_compile", "luau_load", "lua_pcall"}

HostGlobals == {"luau_file_load", "luau_setlocale"}

\* C9: on a run that creates a VM session each lua-cjson entry point is called
\* exactly once and both host functions are bound before luaL_sandbox; the
\* sandbox is applied exactly once, after every other setup call and before
\* the script is read, compiled or run; nothing is bound after it.
C9_SetupBeforeLock ==
  /\ \A f \in DOMAIN regCalls : regCalls[f] <= 1
  /\ sandboxCount <= 1
  /\ lateBinds = {}
  /\ sandboxCount = 1 =>
       /\ \A f \in DOMAIN regCalls : regCalls[f] = 1
       /\ globals = HostGlobals
  /\ \A i, j \in DOMAIN log :
       (log[i] \in SetupCalls /\ log[j] = "luaL_sandbox") => i < j
  /\ \A k \in DOMAIN log :
       log[k] \in PipelineCalls => (k > 1 /\ \E j \in 1..(k - 1) : log[j] = "luaL_sandbox")
  /\ (pc = "done" /\ newstateCount = 1) => sandboxCount = 1

C9_Witness ==
  /\ pc = "running"
  /\ sandboxCount = 1
  /\ globals = HostGlobals
  /\ regCalls["luaopen_cjson"] = 1
  /\ regCalls["luaopen_cjson_safe"] = 1

\* the last call violated "exactly one argument of string type"
NotOneString(args) == Len(args) # 1 \/ args[1].t # "string"

\* the last call violated "exactly one argument that is a string or a number"
NotOneStringOrNumber(args) ==
  Len(args) # 1 \/ args[1].t \notin {"string", "number"}

\* C10 as stated: a host function called with an argument count other than
\* one, or with one argument that is not of string type (a number included),
\* raises an error and has no side effect; it proceeds only with exactly one
\* string argument.
C10_OnlyStringsProceed ==
  lastCall.fn # "none" =>
    /\ NotOneString(lastCall.args) =>
         (lastCall.out.raised /\ ~lastCall.out.effect)
    /\ lastCall.out.attempted => ~NotOneString(lastCall.args)

\* C10 amended: a host function called with an argument count other than one,
\* or with one argument that is neither a string nor a number, raises an
\* error, reaches neither fopen nor setlocale and leaves the locale, the open
\* files and the buffers as they were; it reaches fopen or setlocale exactly
\* when called with one argument that is a string or a number, and a number
\* is used in its decimal string form.
C10_StringsAndNumbersProceed ==
  [][calls' = calls + 1 =>
       LET c == lastCall'
       IN  /\ NotOneStringOrNumber(c.args) =>
                /\ c.out.raised
                /\ ~c.out.attempted /\ ~c.out.effect
                /\ c.out.nret = 0
                /\ locale' = locale
                /\ openFiles' = openFiles
                /\ heldBuffers' = heldBuffers
           /\ c.out.attempted <=> ~NotOneStringOrNumber(c.args)
           /\ (c.fn = "luau_file_load" /\ c.args = <<Num(12)>>) =>
                (c.out.raised \/ c.out.bytes = FileSystem("12").bytes)
     ]_vars

C10_Witness ==
  /\ lastCall.fn = "luau_file_load"
  /\ lastCall.args = <<Num(12)>>
  /\ ~lastCall.out.raised
  /\ lastCall.out.bytes = FileSystem("12").bytes

\* sub occurs in the string s
Contains(s, sub) ==
  \E i \in 0..(Len(s) - Len(sub)) : SubSeq(s, i + 1, i + Len(sub)) = sub

\* the name a call with exactly one string argument passes
OneString(c) == Len(c.args) = 1 /\ c.args[1].t = "string"

\* C11: luau_setlocale called with one string argument: a name the C library
\* rejects raises an error whose message contains the name, returns no value
\* and leaves the locale as it was; an accepted name becomes the process
\* locale (LC_ALL) and the function returns zero values.
C11_SetlocaleOutcome ==
  [][(calls' = calls + 1 /\ lastCall'.fn = "luau_setlocale"
        /\ OneString(lastCall')) =>
       LET c == lastCall'
           name == c.args[1].s
       IN  IF name \in ValidLocales
           THEN /\ ~c.out.raised
                /\ c.out.nret = 0
                /\ locale' = name
                /\ pc' = "running"
           ELSE /\ c.out.raised
                /\ Contains(c.out.msg, name)
                /\ c.out.nret = 0
                /\ locale' = locale
     ]_vars

C11_Witness ==
  /\ lastCall.fn = "luau_setlocale"
  /\ lastCall.args = <<Str("de_DE")>>
  /\ ~lastCall.out.raised
  /\ locale = "de_DE"

\* the file a luau_file_load call with one string argument names
NamedFile(c) == FileSystem(c.args[1].s)

\* C12 as stated: luau_file_load on an existing file of N bytes returns one
\* string equal to the N bytes unless fewer bytes were read, which raises the
\* short-read error; a file that cannot be opened raises the cannot-open error.
C12_FileLoadRoundTrip ==
  (lastCall.fn = "luau_file_load" /\ OneString(lastCall)) =>
    LET c == lastCall
        f == NamedFile(c)
    IN  IF ~f.exists
        THEN c.out.raised /\ Contains(c.out.msg, "can not open file")
        ELSE IF c.env.shortfall > 0
        THEN c.out.raised /\ Contains(c.out.msg, "can only read")
        ELSE /\ ~c.out.raised
             /\ c.out.nret = 1
             /\ Len(c.out.bytes) = Len(f.bytes)
             /\ c.out.bytes = f.bytes

\* C12 amended: as above when malloc returns a buffer; when malloc returns
\* NULL (which it may do for any N, N = 0 included) the call raises the
\* cannot-allocate error and returns nothing.
C12_FileLoadRoundTripUnlessNoMemory ==
  (lastCall.fn = "luau_file_load" /\ OneString(lastCall)) =>
    LET c == lastCall
        f == NamedFile(c)
    IN  IF ~f.exists
        THEN c.out.raised /\ Contains(c.out.msg, "can not open file")
        ELSE IF c.env.mallocNull
        THEN /\ c.out.raised
             /\ Contains(c.out.msg, "can not allocate")
             /\ c.out.nret = 0
        ELSE IF c.env.shortfall > 0
        THEN /\ c.out.raised
             /\ Contains(c.out.msg, "can only read")
             /\ c.out.nret = 0
        ELSE /\ ~c.out.raised
             /\ c.out.nret = 1
             /\ Len(c.out.bytes) = Len(f.bytes)
             /\ c.out.bytes = f.bytes

C12_Witness ==
  /\ lastCall.fn = "luau_file_load"
  /\ lastCall.args = <<Str("a.json")>>
  /\ ~lastCall.out.raised
  /\ lastCall.out.bytes = <<123, 0, 125>>

\* C13: the buffer luau_compile returned is read by luau_load once and freed
\* once, right after the luau_load call and before load_result is tested, on
\* the success and the failure path alike; it is never read after the free
\* and is freed when lua_pcall starts.
C13_BytecodeLifecycle ==
  /\ bytecode.reads <= 1
  /\ bytecode.frees <= 1
  /\ bytecode.readsAfterFree = 0
  /\ bytecode.state = "live" <=> pc \in {"load", "free"}
  /\ pc = "free" => (bytecode.reads = 1 /\ bytecode.frees = 0)
  /\ (Called("luau_load") /\ pc # "free") =>
       /\ bytecode.state = "freed"
       /\ bytecode.reads = 1
       /\ bytecode.frees = 1
  /\ \A i \in DOMAIN log :
       log[i] = "luau_load" =>
         IF i = Len(log) THEN pc = "free" ELSE log[i + 1] = "free"
  /\ pcallCount > 0 => bytecode.state = "freed"

C13_Witness ==
  /\ pc = "exec_ret"
  /\ load_result # 0
  /\ bytecode.state = "freed"
  /\ bytecode.frees = 1

TracebackFn == Fn("traceback")

\* C14: with h values on the stack at entry, the traceback function is
\* fetched while the chunk is in slot h + 1, and when lua_pcall starts the
\* stack is the h old values, the traceback function, the chunk, and errfunc
\* is h + 1, the slot of the traceback function.
C14_HandlerBelowChunk ==
  LET base == EntryStack(entryTop)
      chunk == Fn(argv1)
  IN  /\ pc = "getfield" => stack = base \o <<chunk, Tbl("debug")>>
      /\ pc = "remove_debug" =>
           stack = base \o <<chunk, Tbl("debug"), TracebackFn>>
      /\ pc = "insert" => stack = base \o <<chunk, TracebackFn>>
      /\ pc \in {"errfunc", "pcall"} => stack = base \o <<TracebackFn, chunk>>
      /\ pc = "pcall" =>
           /\ errfunc = entryTop + 1
           /\ stack[errfunc] = TracebackFn
           /\ Len(stack) = errfunc + 1
      /\ pc = "running" => stack = base \o <<TracebackFn>>

C14_Witness ==
  /\ pc = "pcall"
  /\ entryTop >= 2
  /\ errfunc = entryTop + 1
  /\ stack[errfunc] = TracebackFn

\* C15: when lua_pcall succeeds with n results on a stack that held h values
\* at entry, exec_luau_source returns with the h old values unchanged and the
\* n results above them in order, the handler's slot removed; on the failure
\* path the handler is still in its slot when the session is closed.
C15_StackAfterCall ==
  LET base == EntryStack(entryTop)
  IN  /\ (pc = "pcall_ret" /\ pcallStatus = 0) =>
           stack = base \o <<TracebackFn>> \o results
      /\ (pc = "exec_ret" /\ execRet = 0) =>
           /\ stack = base \o results
           /\ Len(stack) = entryTop + Len(results)
      /\ (pc \in {"pcall_ret", "run_err_pop"} /\ pcallStatus # 0) =>
           /\ Len(stack) = entryTop + 2
           /\ SubSeq(stack, 1, entryTop + 1) = base \o <<TracebackFn>>
      /\ pc = "run_err_close" => stack = base \o <<TracebackFn>>

C15_Witness ==
  /\ pc = "exec_ret"
  /\ execRet = 0
  /\ entryTop >= 1
  /\ Len(results) >= 2
  /\ stack = EntryStack(entryTop) \o results

\* C16: whatever calls of luau_file_load were made, and however each of them
\* ended, no FILE handle it opened and no buffer it allocated is still held.
C16_FileLoadReleasesAll ==
  /\ openFiles = 0
  /\ heldBuffers = 0
  /\ lastCall.out.files = 0
  /\ lastCall.out.bufs = 0

\* the positions of main and exec_luau_source in the order of the control flow
PcOrder ==
  <<"main", "openlibs", "cjson", "cjson_safe", "bind_file_load",
    "bind_setlocale", "sandbox", "load_file", "compile", "load", "free",
    "loaded", "load_err_pop", "load_err_close", "getfield", "remove_debug",
    "insert", "errfunc", "pcall", "running", "pcall_ret", "run_err_pop",
    "run_err_close", "exec_ret", "done">>

PcRank(p) == CHOOSE k \in 1..Len(PcOrder) : PcOrder[k] = p

\* the process has exited from one of the terminal states of the pipeline
Terminated ==
  /\ pc = "done"
  /\ \/ exitStatus = 1 /\ argc < 2 /\ newstateCount = 0
     \/ exitStatus = 1 /\ load_result # 0 /\ pcallCount = 0
     \/ exitStatus = 1 /\ load_result = 0 /\ pcallStatus # 0
     \/ exitStatus = 0 /\ load_result = 0 /\ pcallCount = 1 /\ pcallStatus = 0

\* C17: every step moves forward in the control flow (the running chunk may
\* stay running while it makes a further host call), never back to an earlier
\* position, and every run reaches the exit with status 0 or 1 from a usage
\* error, a load error, a runtime error or a successful execution.
C17_Terminates ==
  /\ [][\/ PcRank(pc') > PcRank(pc)
        \/ pc = "running" /\ pc' = "running" /\ calls' = calls + 1]_vars
  /\ <>Terminated

C17_Witness == Terminated /\ exitStatus = 0 /\ calls = MaxCalls

====
